---- MODULE Spec2Model ----
(***************************************************************************)
(* Model of the vanity-address search engine of src/core/vangen.py:        *)
(* HostSetting (the 256-bit counter key32 and its advancement),            *)
(* the per-device workers (single_gpu_init / multi_gpu_init) and the       *)
(* round loop of search_vanity_addresses, together with the Back/Cancel    *)
(* click of the generation screen.                                         *)
(***************************************************************************)
EXTENDS Integers, Sequences, FiniteSets, TLC

(* ------------------------------ bounds --------------------------------- *)
MaxDevices == 2      \* GPU devices the platform may enumerate (0..MaxDevices)
MaxCount == 2        \* largest requested count
MaxRounds == 3       \* rounds dispatched in one run of the model
MaxFindDevices == 4  \* devices in the specification of Searcher.find alone
MaxThreads == 2      \* search threads the window starts in one run of the model
MaxEvents == 2       \* posted events waiting in the queue

(* ------------------------- program constants --------------------------- *)
KeyLen == 32         \* key32 is 32 bytes
UbyteMod == 256      \* np.ubyte arithmetic is modulo 256

\* iteration_bits: the default 24 and a value that is not a multiple of 8
IterBitsChoices == {20, 24}
Counts == 1..MaxCount
\* the private keys a device may report, as identifiers
PrivKeys == {1, 2}

(* base58 alphabet, restricted to the characters the model's patterns use  *)
Base58Chars == {"A", "z", "1"}
PrefixChoices == {<<>>, <<"A">>, <<"0">>}
SuffixChoices == {<<>>, <<"l">>}

VARIABLES
  state,            \* position of search_vanity_addresses
  starts_with, ends_with, count, select_device, iteration_bits, has_callback,
  gpu_counts,       \* number of GPU devices get_all_gpu_devices returns
  build_fails,      \* cl.Program(context, kernel_source).build() raises
  key32,            \* setting.key32, 32 bytes big-endian (<<>> before HostSetting exists)
  keys,             \* history: key32 at creation and after every successful increase_key32
  result_count, found_keys,
  files,            \* output_dir: key file path -> content
  worker,           \* per worker: "idle", "running", "done"
  outcome,          \* per worker: what its task produced in the current round
  results,          \* the list the round's join handed to the harvest loop
  dispatched,       \* history: key32 each round was dispatched with
  tasks,            \* per worker: the dispatch of its task in the current round
  wrote,            \* per worker: a work-item of its dispatch wrote the flag
  callbacks,        \* history: the callback invocations
  result,           \* return value of search_vanity_addresses
  cancel_requested, \* the user clicked Back/Cancel while generating
  enumerated,       \* history: get_all_gpu_devices has been called
  io_error,         \* history: a key_path.write_text call raised
  current_screen,   \* MainWindow.current_screen
  generating,       \* fields of the GenerationScreen object in screens
  generation_thread,
  generation_result,
  generation_error,
  threads,          \* the search threads started so far
  events,           \* the pygame event queue (USEREVENTs only)
  completed         \* history: the calls of on_complete

inputs == <<starts_with, ends_with, count, select_device, iteration_bits,
            has_callback, gpu_counts, build_fails>>
core == <<state, inputs, key32, keys, result_count, found_keys, files, worker,
          outcome, results, dispatched, tasks, wrote, callbacks, result,
          cancel_requested, enumerated, io_error>>
gui == <<current_screen, generating, generation_thread, generation_result,
         generation_error, threads, events, completed>>
vars == <<core, gui>>

(* --------------------------- HostSetting ------------------------------- *)
\* ceil(iteration_bits / 8)
iteration_bytes(bits) == (bits + 7) \div 8

\* secrets.token_bytes(32 - iteration_bytes) + b"\x00" * iteration_bytes;
\* the random part is drawn from tokens <<fill, last>>: every byte is fill
\* except the lowest random byte, which is last
TokenChoices == {<<0, 255>>, <<255, 254>>}
generate_key32(token, bits) ==
  [i \in 1..KeyLen |->
     IF i > KeyLen - iteration_bytes(bits) THEN 0
     ELSE IF i = KeyLen - iteration_bytes(bits) THEN token[2] ELSE token[1]]

Pow2(n) == 2 ^ n

\* add v to byte pos (1 = most significant) with carry towards byte 1;
\* ok = FALSE when the carry leaves byte 1 (to_bytes(32, "big") raises OverflowError);
\* the bytes with the carry taken out are bound to c as a value before the
\* carry is added one byte up
RECURSIVE AddAt(_, _, _)
AddAt(k, pos, v) ==
  IF pos < 1 THEN [ok |-> FALSE, val |-> k]
  ELSE LET sum == k[pos] + v IN
       IF sum < UbyteMod THEN [ok |-> TRUE, val |-> [k EXCEPT ![pos] = sum]]
       ELSE CHOOSE r \in {AddAt(c, pos - 1, 1) :
                            c \in {[k EXCEPT ![pos] = sum - UbyteMod]}} : TRUE

\* int.from_bytes(key32, "big") + (1 << iteration_bits), back to 32 bytes
AddPow2Bytes(k, bits) == AddAt(k, KeyLen - iteration_bytes(bits), 1)
AddPow2(k, bits) == AddAt(k, KeyLen - (bits \div 8), Pow2(bits % 8))

\* -self.iteration_bytes: iteration_bytes is an np.ubyte, negation wraps
NegUbyte(x) == (UbyteMod - x) % UbyteMod

\* indices (0-based) of new_key32[start:] for a 32-element array
SliceFrom(start) == {i \in 0..(KeyLen - 1) : i >= start}

\* the intended advancement: the low iteration_bytes bytes are zeroed again
increase_key32_rezero(k, bits) ==
  LET sum == AddPow2(k, bits) IN
  IF ~sum.ok THEN [raised |-> TRUE, key |-> k]
  ELSE [raised |-> FALSE,
        key |-> [i \in 1..KeyLen |->
                   IF i > KeyLen - iteration_bytes(bits) THEN 0 ELSE sum.val[i]]]

\* an advancement that drops the carry out of byte 1 (wraps modulo 2^256)
increase_key32_wrap(k, bits) == [raised |-> FALSE, key |-> AddPow2(k, bits).val]

\* HostSetting.increase_key32: raised = TRUE when the call raises
\* (OverflowError from to_bytes, or ValueError from writing into the
\* read-only array np.frombuffer returns); key32 is then left as it was
increase_key32(k, bits) ==
  LET sum == AddPow2(k, bits)
      low == SliceFrom(NegUbyte(iteration_bytes(bits)))
  IN IF ~sum.ok THEN [raised |-> TRUE, key |-> k]
     ELSE IF \E i \in low : sum.val[i + 1] # 0
          THEN [raised |-> TRUE, key |-> k]
          ELSE [raised |-> FALSE, key |-> sum.val]

(* --------------------------- validation -------------------------------- *)
\* b58decode raises ValueError on a character outside the alphabet
B58DecodeRaises(s) == \E i \in DOMAIN s : s[i] \notin Base58Chars

\* check_character: TRUE when it calls sys.exit(1)
check_character(s) == B58DecodeRaises(s)

\* `not starts_with and not ends_with`
EmptyPatternIsNone(sw, ew) == FALSE
EmptyPattern(sw, ew) == sw = <<>> /\ ew = <<>>

\* `gpu_counts == 0`
NoDevicesNegative(n) == n < 0
NoDevices(n) == n = 0

(* ----------------------------- workers --------------------------------- *)
\* workers of one round: range(gpu_counts), or the single executor task
Workers == IF select_device THEN {0} ELSE 0..(gpu_counts - 1)

\* what a task can produce: the read-back output (found flag, private key),
\* a compute-API error, or a program build failure
NotFound == [kind |-> "output", found |-> FALSE, pv |-> 0]
Found(p) == [kind |-> "output", found |-> TRUE, pv |-> p]
DispatchError == [kind |-> "dispatch_error", found |-> FALSE, pv |-> 0]
BuildError == [kind |-> "build_error", found |-> FALSE, pv |-> 0]
Idle == [kind |-> "none", found |-> FALSE, pv |-> 0]

\* cl.Buffer(context, READ_WRITE, 33) without COPY_HOST_PTR: the device
\* memory is not initialised, it holds zeros or the bytes an earlier buffer
\* left there (a flag and a key)
memobj_output == {NotFound} \cup {Found(p) : p \in PrivKeys}
\* the device program: a work-item that matches writes flag = 1 and its
\* private key; m is the matching key, 0 when no work-item matches
Matches == {0} \cup PrivKeys
generate_pubkey(buf, m) == IF m = 0 THEN buf ELSE Found(m)

\* Searcher.__init__: 1 with a supplied context, else len(device_ids)
gpu_chunks == IF select_device THEN 1 ELSE gpu_counts
\* HostSetting.__init__
global_work_size(bits) == Pow2(bits)
local_work_size == 32
\* Searcher.find: global_work_size // gpu_chunks
global_worker_size(bits, chunks) == global_work_size(bits) \div chunks
\* the dispatch of worker w's Searcher: index is the chunk offset handed to
\* the kernel, key32 the seed copied to the device, size the work-items
NoTask == [index |-> -1, key32 |-> <<>>, size |-> 0]
TaskSameIndex(w, k) ==
  [index |-> 0, key32 |-> k,
   size |-> global_worker_size(iteration_bits, gpu_chunks)]
Task(w, k) ==
  [index |-> w, key32 |-> k,
   size |-> global_worker_size(iteration_bits, gpu_chunks)]

\* multi_gpu_init: any exception is logged and [0] is returned
multi_gpu_init(o) == IF o.kind = "output" THEN o ELSE NotFound

\* pool.starmap / future.result(): returns once every task has finished
RoundJoinedSome == \E w \in Workers : worker[w] = "done"
RoundJoined == \A w \in Workers : worker[w] = "done"

(* --------------------------- key material ------------------------------ *)
PubLen == 32
\* bytes(output[1:]): the 32 seed bytes the kernel reported for sample key p
pv_bytes(p) == [i \in 1..KeyLen |-> (p * 37 + i * 11) % UbyteMod]
\* bytes(SigningKey(pv_bytes).verify_key): the Ed25519 derivation is library
\* code; it is a function of the seed that yields 32 bytes, modelled by a
\* byte-wise scrambling of the reversed seed
verify_key(pv) == [i \in 1..PubLen |-> (pv[KeyLen + 1 - i] * 3 + i) % UbyteMod]
pb_bytes(p) == verify_key(pv_bytes(p))

\* the Bitcoin alphabet of the base58 package
Alphabet ==
  << "1", "2", "3", "4", "5", "6", "7", "8", "9",
     "A", "B", "C", "D", "E", "F", "G", "H", "J", "K", "L", "M", "N", "P",
     "Q", "R", "S", "T", "U", "V", "W", "X", "Y", "Z",
     "a", "b", "c", "d", "e", "f", "g", "h", "i", "j", "k", "m", "n", "o",
     "p", "q", "r", "s", "t", "u", "v", "w", "x", "y", "z" >>
Radix == 58
\* divmod(acc, 58) on a big-endian byte string: quotient bytes and remainder
RECURSIVE DivMod58(_, _, _, _)
DivMod58(bytes, i, rem, q) ==
  IF i > Len(bytes) THEN [q |-> q, rem |-> rem]
  ELSE LET cur == rem * UbyteMod + bytes[i]
       IN DivMod58(bytes, i + 1, cur % Radix, Append(q, cur \div Radix))
\* v.lstrip(b"\0")
RECURSIVE lstrip0(_)
lstrip0(bytes) ==
  IF bytes # <<>> /\ bytes[1] = 0 THEN lstrip0(Tail(bytes)) ELSE bytes
\* b58encode_int(acc, default_one=False): `while acc: acc, idx = divmod(..)`
RECURSIVE b58encode_int(_, _)
b58encode_int(bytes, string) ==
  IF lstrip0(bytes) = <<>> THEN string
  ELSE LET d == DivMod58(lstrip0(bytes), 1, 0, <<>>)
       IN b58encode_int(d.q, Alphabet[d.rem + 1] \o string)
\* b58encode(v): one "1" per leading zero byte, then the digits
RECURSIVE Repeat(_, _)
Repeat(c, n) == IF n = 0 THEN "" ELSE c \o Repeat(c, n - 1)
b58encode(v) ==
  Repeat(Alphabet[1], Len(v) - Len(lstrip0(v))) \o b58encode_int(v, "")

\* b58encode(pb_bytes).decode(), computed once per sample key
Pubkeys == [p \in PrivKeys |-> b58encode(pb_bytes(p))]
pubkey(p) == Pubkeys[p]
\* Path(output_dir, f"{pubkey}.json"), computed once per sample key
KeyPaths == [p \in PrivKeys |-> "output_dir/" \o Pubkeys[p] \o ".json"]
key_path(p) == KeyPaths[p]
\* pv_bytes + pb_bytes
key_bytes_swapped(pv, pb) == pb \o pv
key_bytes(pv, pb) == pv \o pb
\* json.dumps(list(...)): the text of a JSON array of the integers
json_dumps(l) == [json |-> "array", items |-> l]
\* key_path.write_text(text): creates the file or replaces its content
write_text(fs, path, text) ==
  [f \in DOMAIN fs \cup {path} |-> IF f = path THEN text ELSE fs[f]]

(* --------------------------- harvest loop ------------------------------ *)
\* `for output in results`: rc/fk/fs are result_count, found_keys and the
\* files on disk; fail_at is the index whose write_text raises (0: none)
\* json.dumps(list(pv_bytes + pb_bytes)), computed once per sample key
KeyTexts == [p \in PrivKeys |-> json_dumps(key_bytes(pv_bytes(p), pb_bytes(p)))]
save(fs, p) == write_text(fs, key_path(p), KeyTexts[p])
\* a loop without the `if result_count >= count: break`
RECURSIVE harvest_nobreak(_, _, _, _, _, _)
harvest_nobreak(outs, i, rc, fk, fs, fail_at) ==
  IF i > Len(outs) THEN [raised |-> FALSE, rc |-> rc, fk |-> fk, fs |-> fs]
  ELSE IF ~outs[i].found THEN harvest_nobreak(outs, i + 1, rc, fk, fs, fail_at)
  ELSE IF fail_at = i THEN [raised |-> TRUE, rc |-> rc, fk |-> fk, fs |-> fs]
  ELSE harvest_nobreak(outs, i + 1, rc + 1,
                       Append(fk, [pubkey |-> pubkey(outs[i].pv),
                                   path |-> key_path(outs[i].pv)]),
                       save(fs, outs[i].pv), fail_at)
\* a loop that counts a match without appending its record to found_keys
RECURSIVE harvest_noappend(_, _, _, _, _, _)
harvest_noappend(outs, i, rc, fk, fs, fail_at) ==
  IF i > Len(outs) THEN [raised |-> FALSE, rc |-> rc, fk |-> fk, fs |-> fs]
  ELSE IF ~outs[i].found THEN harvest_noappend(outs, i + 1, rc, fk, fs, fail_at)
  ELSE IF fail_at = i THEN [raised |-> TRUE, rc |-> rc, fk |-> fk, fs |-> fs]
  ELSE IF rc + 1 >= count
       THEN [raised |-> FALSE, rc |-> rc + 1, fk |-> fk, fs |-> save(fs, outs[i].pv)]
       ELSE harvest_noappend(outs, i + 1, rc + 1, fk, save(fs, outs[i].pv), fail_at)
\* a loop that takes the first found output of a round and leaves the rest
RECURSIVE harvest_first_only(_, _, _, _, _, _)
harvest_first_only(outs, i, rc, fk, fs, fail_at) ==
  IF i > Len(outs) THEN [raised |-> FALSE, rc |-> rc, fk |-> fk, fs |-> fs]
  ELSE IF ~outs[i].found THEN harvest_first_only(outs, i + 1, rc, fk, fs, fail_at)
  ELSE IF fail_at = i THEN [raised |-> TRUE, rc |-> rc, fk |-> fk, fs |-> fs]
  ELSE [raised |-> FALSE, rc |-> rc + 1,
        fk |-> Append(fk, [pubkey |-> pubkey(outs[i].pv),
                           path |-> key_path(outs[i].pv)]),
        fs |-> save(fs, outs[i].pv)]
RECURSIVE harvest(_, _, _, _, _, _)
harvest(outs, i, rc, fk, fs, fail_at) ==
  IF i > Len(outs) THEN [raised |-> FALSE, rc |-> rc, fk |-> fk, fs |-> fs]
  ELSE IF ~outs[i].found THEN harvest(outs, i + 1, rc, fk, fs, fail_at)
  ELSE IF fail_at = i THEN [raised |-> TRUE, rc |-> rc, fk |-> fk, fs |-> fs]
  ELSE LET fs2 == save(fs, outs[i].pv)
           fk2 == Append(fk, [pubkey |-> pubkey(outs[i].pv),
                              path |-> key_path(outs[i].pv)])
       IN IF rc + 1 >= count
          THEN [raised |-> FALSE, rc |-> rc + 1, fk |-> fk2, fs |-> fs2]
          ELSE harvest(outs, i + 1, rc + 1, fk2, fs2, fail_at)

\* `while result_count < count`
LoopContinuesLax(rc) == rc <= count
\* `while True`
LoopContinuesAlways(rc) == TRUE
LoopContinues(rc) == rc < count

(* ------------------------------ callbacks ------------------------------ *)
Searching(rc) == [status |-> "searching", num |-> rc, den |-> count]
CompleteCb == [status |-> "complete", num |-> 1, den |-> 1]
\* {"status": "error", "error": error_msg}: no progress key
ErrorCb == [status |-> "error", error |-> "Error in search_vanity_addresses"]
CallTwice(cb) == IF has_callback THEN callbacks \o <<cb, cb>> ELSE callbacks
Call(cb) == IF has_callback THEN Append(callbacks, cb) ELSE callbacks

(* ------------------------------- Init ---------------------------------- *)
\* GenerationScreen.__init__
NewScreen ==
  [generating |-> FALSE, generation_thread |-> 0,
   generation_result |-> "None", generation_error |-> "None"]
\* MainWindow after the landing animation, no search started from it
InitWindow ==
  /\ current_screen = "welcome"
  /\ generating = NewScreen.generating
  /\ generation_thread = NewScreen.generation_thread
  /\ generation_result = NewScreen.generation_result
  /\ generation_error = NewScreen.generation_error
  /\ threads = [t \in 1..MaxThreads |-> "unstarted"]
  /\ events = <<>>
  /\ completed = 0

Init ==
  /\ InitWindow
  /\ state = "Idle"
  /\ starts_with \in PrefixChoices
  /\ ends_with \in SuffixChoices
  /\ count \in Counts
  /\ select_device \in BOOLEAN
  /\ iteration_bits \in IterBitsChoices
  /\ has_callback \in BOOLEAN
  /\ gpu_counts \in 0..MaxDevices
  /\ build_fails \in BOOLEAN
  /\ key32 = <<>>
  /\ keys = <<>>
  /\ result_count = 0
  /\ found_keys = <<>>
  /\ files = <<>>
  /\ worker = [w \in 0..(MaxDevices - 1) |-> "idle"]
  /\ outcome = [w \in 0..(MaxDevices - 1) |-> Idle]
  /\ results = <<>>
  /\ dispatched = <<>>
  /\ tasks = [w \in 0..(MaxDevices - 1) |-> NoTask]
  /\ wrote = [w \in 0..(MaxDevices - 1) |-> FALSE]
  /\ callbacks = <<>>
  /\ result = [kind |-> "none"]
  /\ cancel_requested = FALSE
  /\ enumerated = FALSE
  /\ io_error = FALSE

(* ------------------------------ actions -------------------------------- *)
\* a catch-all that hands the matches harvested so far back with the error
FailPartial(cbs) ==
  /\ state' = "Failed"
  /\ callbacks' = (IF has_callback THEN Append(cbs, ErrorCb) ELSE cbs)
  /\ result' = [kind |-> "failure", error |-> "Error in search_vanity_addresses",
                results |-> found_keys]

\* the catch-all handler of search_vanity_addresses (except Exception)
Fail(cbs) ==
  /\ state' = "Failed"
  /\ callbacks' = (IF has_callback THEN Append(cbs, ErrorCb) ELSE cbs)
  /\ result' = [kind |-> "failure", error |-> "Error in search_vanity_addresses"]

\* loop head with result_count < count: the "searching" callback, then the
\* round's tasks are submitted (pool.starmap / executor.submit) with key k
DispatchRound(k, rc) ==
  /\ Len(dispatched) < MaxRounds
  /\ state' = "Dispatching"
  /\ callbacks' = Call(Searching(rc))
  /\ worker' = [w \in DOMAIN worker |-> IF w \in Workers THEN "running" ELSE "idle"]
  /\ outcome' = [w \in DOMAIN outcome |-> Idle]
  /\ dispatched' = Append(dispatched, k)
  /\ tasks' = [w \in DOMAIN tasks |-> IF w \in Workers THEN Task(w, k) ELSE NoTask]
  /\ result' = result

\* the caller invokes search_vanity_addresses
Start ==
  /\ state = "Idle"
  /\ state' = "Validating"
  /\ UNCHANGED <<inputs, key32, keys, result_count, found_keys, files, worker,
                 outcome, results, dispatched, tasks, wrote, callbacks, result,
                 cancel_requested, enumerated, io_error>>
  /\ UNCHANGED gui

\* empty-pattern test and the two check_character calls
Validate ==
  /\ state = "Validating"
  /\ IF EmptyPattern(starts_with, ends_with)
     THEN /\ state' = "Failed"
          /\ result' = [kind |-> "failure",
                        error |-> "Please provide at least a prefix or suffix"]
     ELSE IF check_character(starts_with) \/ check_character(ends_with)
     THEN /\ state' = "Exited"
          /\ result' = [kind |-> "SystemExit"]
     ELSE /\ state' = "Initializing"
          /\ result' = result
  /\ UNCHANGED <<inputs, key32, keys, result_count, found_keys, files, worker,
                 outcome, results, dispatched, tasks, wrote, callbacks,
                 cancel_requested, enumerated, io_error>>
  /\ UNCHANGED gui

\* device count, kernel source, HostSetting, and the first pass of the loop head
Initialize ==
  /\ state = "Initializing"
  /\ enumerated' = TRUE
  /\ IF NoDevices(gpu_counts)
     THEN /\ state' = "Failed"
          /\ result' = [kind |-> "failure",
                        error |-> "No compatible GPU devices found"]
          /\ UNCHANGED <<key32, keys, worker, outcome, dispatched, tasks, callbacks>>
     ELSE \E token \in TokenChoices :
          /\ key32' = generate_key32(token, iteration_bits)
          /\ keys' = <<key32'>>
          /\ DispatchRound(key32', 0)
  /\ UNCHANGED <<inputs, result_count, found_keys, files, results, wrote,
                 cancel_requested, io_error>>
  /\ UNCHANGED gui

\* one task of the round runs to its end: Searcher(...) then searcher.find()
WorkerReturn(w) ==
  /\ w \in Workers
  /\ worker[w] = "running"
  /\ worker' = [worker EXCEPT ![w] = "done"]
  /\ IF build_fails
     THEN outcome' = [outcome EXCEPT ![w] = BuildError]
     ELSE \E o \in {NotFound, DispatchError} \cup {Found(p) : p \in PrivKeys} :
            outcome' = [outcome EXCEPT ![w] = o]
  /\ UNCHANGED <<state, inputs, key32, keys, result_count, found_keys, files,
                 results, dispatched, tasks, wrote, callbacks, result,
                 cancel_requested, enumerated, io_error>>
  /\ UNCHANGED gui

\* the blocking call returns: pool.starmap(multi_gpu_init, ...) with one
\* output per device, or future.result() of single_gpu_init, which re-raises
Join ==
  /\ state = "Dispatching"
  /\ RoundJoined
  /\ IF select_device /\ outcome[0].kind # "output"
     THEN /\ Fail(callbacks)
          /\ UNCHANGED results
     ELSE /\ state' = "Harvesting"
          /\ results' = (IF select_device THEN <<outcome[0]>>
                         ELSE [x \in 1..gpu_counts |-> multi_gpu_init(outcome[x - 1])])
          /\ UNCHANGED <<callbacks, result>>
  /\ UNCHANGED <<inputs, key32, keys, result_count, found_keys, files, worker,
                 outcome, dispatched, tasks, wrote, cancel_requested, enumerated, io_error>>
  /\ UNCHANGED gui

\* the for loop over the round's outputs, setting.increase_key32(), the
\* sleep, and the next pass of the loop head (next dispatch, or the
\* "complete" callback and the return)
Harvest ==
  /\ state = "Harvesting"
  /\ \E fail_at \in {0} \cup {i \in DOMAIN results : results[i].found} :
       LET h == harvest(results, 1, result_count, found_keys, files, fail_at)
           inc == increase_key32(key32, iteration_bits)
       IN /\ result_count' = h.rc
          /\ found_keys' = h.fk
          /\ files' = h.fs
          /\ io_error' = (io_error \/ h.raised)
          /\ IF h.raised \/ inc.raised
             THEN /\ Fail(callbacks)
                  /\ UNCHANGED <<key32, keys, worker, outcome, dispatched, tasks>>
             ELSE /\ key32' = inc.key
                  /\ keys' = Append(keys, inc.key)
                  /\ IF LoopContinues(h.rc)
                     THEN DispatchRound(inc.key, h.rc)
                     ELSE /\ state' = "Complete"
                          /\ callbacks' = Call(CompleteCb)
                          /\ result' = [kind |-> "success", results |-> h.fk,
                                        count |-> h.rc]
                          /\ UNCHANGED <<worker, outcome, dispatched, tasks>>
  /\ UNCHANGED <<inputs, results, wrote, cancel_requested, enumerated>>
  /\ UNCHANGED gui

\* GenerationScreen.handle_event while generating: the Back button is the
\* cancel button, its callback switches to the welcome screen
CancelClick ==
  /\ has_callback /\ ~select_device
  /\ state \in {"Validating", "Initializing", "Dispatching", "Harvesting"}
  /\ ~cancel_requested
  /\ cancel_requested' = TRUE
  /\ UNCHANGED <<state, inputs, key32, keys, result_count, found_keys, files,
                 worker, outcome, results, dispatched, tasks, wrote, callbacks,
                 result, enumerated, io_error>>
  /\ UNCHANGED gui

Next ==
  \/ Start
  \/ Validate
  \/ Initialize
  \/ \E w \in 0..(MaxDevices - 1) : WorkerReturn(w)
  \/ Join
  \/ Harvest
  \/ CancelClick

Spec == Init /\ [][Next]_vars

(* ------------------- Searcher.find on its own -------------------------- *)
\* the values the iteration slider of the generation screen offers
FindBits == 16..28
\* a run that has created its HostSetting and is about to issue the tasks
\* of its first round, for every slider value and up to MaxFindDevices devices
InitFind ==
  /\ InitWindow
  /\ state = "Dispatching"
  /\ starts_with = <<"A">> /\ ends_with = <<>> /\ count = 1
  /\ select_device \in BOOLEAN
  /\ iteration_bits \in FindBits
  /\ has_callback = FALSE
  /\ gpu_counts \in 1..MaxFindDevices
  /\ build_fails = FALSE
  /\ key32 = generate_key32(<<0, 255>>, iteration_bits)
  /\ keys = <<key32>>
  /\ dispatched = <<key32>>
  /\ result_count = 0 /\ found_keys = <<>> /\ files = <<>>
  /\ worker = [w \in 0..(MaxFindDevices - 1) |-> IF w \in Workers THEN "running" ELSE "idle"]
  /\ outcome = [w \in 0..(MaxFindDevices - 1) |-> Idle]
  /\ tasks = [w \in 0..(MaxFindDevices - 1) |-> NoTask]
  /\ wrote = [w \in 0..(MaxFindDevices - 1) |-> FALSE]
  /\ results = <<>> /\ callbacks = <<>> /\ result = [kind |-> "none"]
  /\ cancel_requested = FALSE /\ enumerated = TRUE /\ io_error = FALSE

\* Searcher(index=w, ...).find() up to enqueue_nd_range_kernel
Find(w) ==
  /\ w \in Workers
  /\ tasks[w] = NoTask
  /\ tasks' = [tasks EXCEPT ![w] = Task(w, key32)]
  /\ UNCHANGED <<state, inputs, key32, keys, result_count, found_keys, files,
                 worker, outcome, results, dispatched, wrote, callbacks, result,
                 cancel_requested, enumerated, io_error>>
  /\ UNCHANGED gui

\* the rest of Searcher.find(): the kernel runs on the output buffer as
\* created, enqueue_copy reads it back into output, and output is returned
ReadBack(w) ==
  /\ w \in Workers
  /\ tasks[w] # NoTask
  /\ worker[w] = "running"
  /\ worker' = [worker EXCEPT ![w] = "done"]
  /\ \E buf \in memobj_output, m \in Matches :
       /\ outcome' = [outcome EXCEPT ![w] = generate_pubkey(buf, m)]
       /\ wrote' = [wrote EXCEPT ![w] = (m # 0)]
  /\ UNCHANGED <<state, inputs, key32, keys, result_count, found_keys, files,
                 results, dispatched, tasks, callbacks, result,
                 cancel_requested, enumerated, io_error>>
  /\ UNCHANGED gui

NextFind ==
  \/ \E w \in 0..(MaxFindDevices - 1) : Find(w)
  \/ \E w \in 0..(MaxFindDevices - 1) : ReadBack(w)
FindSpec == InitFind /\ [][NextFind]_vars

(* ------------- runs on devices that find a match in every round ------- *)
\* runs whose patterns pass validation, with at least one device and a
\* program that builds
InitStub ==
  /\ Init
  /\ ~EmptyPattern(starts_with, ends_with)
  /\ ~check_character(starts_with) /\ ~check_character(ends_with)
  /\ gpu_counts >= 1
  /\ ~build_fails

\* a task of the round returns; the last one to return reports a match when
\* no other task of the round did
StubReturn(w) ==
  /\ WorkerReturn(w)
  /\ (\A v \in Workers : worker'[v] = "done") => \E v \in Workers : outcome'[v].found

NextStub ==
  \/ Start
  \/ Validate
  \/ Initialize
  \/ \E w \in 0..(MaxDevices - 1) : StubReturn(w)
  \/ Join
  \/ Harvest

\* search_vanity_addresses runs on its own thread and is never suspended;
\* every dispatch returns
StubSpec ==
  /\ InitStub /\ [][NextStub]_vars
  /\ WF_vars(Start) /\ WF_vars(Validate) /\ WF_vars(Initialize)
  /\ \A w \in 0..(MaxDevices - 1) : WF_vars(StubReturn(w))
  /\ WF_vars(Join) /\ WF_vars(Harvest)

(* ------------------- the window and its search threads ---------------- *)
\* the window before any search: one set of inputs, search not started
InitGui ==
  /\ Init
  /\ starts_with = <<"A">> /\ ends_with = <<>> /\ count = 1
  /\ ~select_device /\ iteration_bits = 24 /\ has_callback
  /\ gpu_counts = 1 /\ ~build_fails

screen == <<generating, generation_thread, generation_result, generation_error>>

\* handle_welcome_menu("generate")
MenuGenerate ==
  /\ current_screen = "welcome"
  /\ current_screen' = "generation"
  /\ UNCHANGED <<core, screen, threads, events, completed>>

\* the Generate button: handle_event passes the click to it only when not
\* generating; start_generation returns early on two empty patterns, else
\* it starts a thread running run_generation
GenerateClick ==
  /\ current_screen = "generation"
  /\ ~generating
  /\ \E empty \in BOOLEAN :
       IF empty
       THEN /\ generation_error' = "Please provide at least a prefix or suffix"
            /\ UNCHANGED <<generating, generation_thread, threads>>
       ELSE /\ \E t \in 1..MaxThreads : threads[t] = "unstarted"
            /\ LET t == CHOOSE u \in 1..MaxThreads :
                           /\ threads[u] = "unstarted"
                           /\ \A v \in 1..(u - 1) : threads[v] # "unstarted"
               IN /\ generation_error' = "None"
                  /\ generating' = TRUE
                  /\ generation_thread' = t
                  /\ threads' = [threads EXCEPT ![t] = "alive"]
  /\ UNCHANGED <<core, current_screen, generation_result, events, completed>>

\* the Back button (the cancel button while generating): on_back
BackClick ==
  /\ current_screen = "generation"
  /\ current_screen' = "welcome"
  /\ UNCHANGED <<core, screen, threads, events, completed>>

\* MainWindow.run, K_ESCAPE on a screen other than the welcome screen
Escape ==
  /\ current_screen # "welcome"
  /\ current_screen' = "welcome"
  /\ UNCHANGED <<core, screen, threads, events, completed>>

\* MainWindow.handle_window_resize: a new GenerationScreen replaces the one
\* in screens, the threads the old one started go on
Resize ==
  /\ generating' = NewScreen.generating
  /\ generation_thread' = NewScreen.generation_thread
  /\ generation_result' = NewScreen.generation_result
  /\ generation_error' = NewScreen.generation_error
  /\ UNCHANGED <<core, current_screen, threads, events, completed>>

\* progress_callback in a search thread posts generation_progress
Progress(t) ==
  /\ threads[t] = "alive"
  /\ Len(events) < MaxEvents
  /\ events' = Append(events, "generation_progress")
  /\ UNCHANGED <<core, current_screen, screen, threads, completed>>

\* run_generation posts generation_complete or generation_error and ends
Finish(t) ==
  /\ threads[t] = "alive"
  /\ Len(events) < MaxEvents
  /\ \E e \in {"generation_complete", "generation_error"} :
       events' = Append(events, e)
  /\ threads' = [threads EXCEPT ![t] = "dead"]
  /\ UNCHANGED <<core, current_screen, screen, completed>>

\* MainWindow.run takes an event from the queue and passes it to the
\* current screen; GenerationScreen.handle_event returns before the
\* USEREVENT branch while generating
HandleEvent ==
  /\ events # <<>>
  /\ events' = Tail(events)
  /\ IF current_screen = "generation" /\ ~generating
     THEN CASE Head(events) = "generation_progress" -> UNCHANGED screen
            [] Head(events) = "generation_complete" ->
                 /\ generation_result' = "result"
                 /\ UNCHANGED <<generating, generation_thread, generation_error>>
            [] Head(events) = "generation_error" ->
                 /\ generation_error' = "error"
                 /\ generating' = FALSE
                 /\ UNCHANGED <<generation_thread, generation_result>>
     ELSE UNCHANGED screen
  /\ UNCHANGED <<core, current_screen, threads, completed>>

\* GenerationScreen.update, and handle_generation_complete as on_complete
Update ==
  /\ current_screen = "generation"
  /\ generating /\ generation_thread # 0 /\ threads[generation_thread] = "dead"
  /\ generation_result # "None"
  /\ generating' = FALSE
  /\ completed' = completed + 1
  /\ generation_result' = "None"
  /\ generation_thread' = 0
  /\ current_screen' = "results"
  /\ UNCHANGED <<core, generation_error, threads, events>>

NextGui ==
  \/ MenuGenerate
  \/ GenerateClick
  \/ BackClick
  \/ Escape
  \/ Resize
  \/ \E t \in 1..MaxThreads : Progress(t)
  \/ \E t \in 1..MaxThreads : Finish(t)
  \/ HandleEvent
  \/ Update

GuiSpec == InitGui /\ [][NextGui]_vars

(* ------------------------- helpers of the claims ----------------------- *)
\* k + 2^e on 32-byte big-endian numbers: when byte p (the byte of bit e)
\* overflows, the carry runs over the 255 bytes above it into byte q, the
\* lowest byte above p that is not 255; ok = FALSE when there is none
PlusPow2(k, e) ==
  LET p == KeyLen - (e \div 8)
      v == 2 ^ (e % 8)
      Q == {i \in 1..(p - 1) : k[i] # 255}
      q == CHOOSE i \in Q : \A j \in Q : j <= i
  IN IF k[p] + v < 256 THEN [ok |-> TRUE, val |-> [k EXCEPT ![p] = k[p] + v]]
     ELSE IF Q = {} THEN [ok |-> FALSE, val |-> k]
     ELSE [ok |-> TRUE,
           val |-> [i \in 1..KeyLen |->
                      IF i = p THEN k[p] + v - 256
                      ELSE IF i = q THEN k[q] + 1
                      ELSE IF i > q /\ i < p THEN 0 ELSE k[i]]]

\* a <= b as big-endian unsigned numbers: equal, or a is smaller at the
\* first byte where they differ
KeyLE(a, b) ==
  LET D == {i \in 1..KeyLen : a[i] # b[i]}
      d == CHOOSE i \in D : \A j \in D : i <= j
  IN D = {} \/ a[d] < b[d]

\* the low iteration_bytes bytes of k are all zero
LowBytesZero(k) ==
  \A i \in 1..KeyLen : i > KeyLen - iteration_bytes(iteration_bits) => k[i] = 0

AnyRunning == \E w \in Workers : worker[w] = "running"

(* ------------------------------- claims -------------------------------- *)
\* C1: for any two rounds i < j the ranges [key32_i, key32_i + 2^b) and
\* [key32_j, key32_j + 2^b) are disjoint: key32_i + 2^b does not overflow
\* and is at most key32_j; in particular consecutive rounds differ in key32.
C1_DisjointRanges ==
  \A i, j \in DOMAIN dispatched :
    i < j =>
      LET end == PlusPow2(dispatched[i], iteration_bits)
      IN end.ok /\ KeyLE(end.val, dispatched[j]) /\ dispatched[i] # dispatched[j]
C1_Witness ==
  /\ Len(dispatched) >= 3
  /\ iteration_bits % 8 # 0
  /\ state = "Dispatching"

\* C2: the low iteration_bytes bytes of key32 are zero in the initial seed
\* and after every call of increase_key32, for every iteration_bits.
C2_LowBytesZero == key32 # <<>> => LowBytesZero(key32)

C4_Barrier ==
  [][ /\ (keys # <<>> /\ (key32' # key32 \/ keys' # keys))
          => /\ state = "Harvesting" /\ ~AnyRunning
             /\ key32' = PlusPow2(key32, iteration_bits).val
      /\ (result_count' # result_count \/ found_keys' # found_keys \/ files' # files)
          => state = "Harvesting" /\ ~AnyRunning
      /\ state' = "Harvesting" => ~AnyRunning' ]_vars
C4_Witness ==
  /\ Len(keys) >= 2 /\ gpu_counts = 2 /\ ~select_device
  /\ result_count = 1 /\ state = "Dispatching" /\ AnyRunning

\* C5: once the satisfied count has reached the requested count no round
\* is dispatched any more, however many devices reported found.
C5_NoRoundAfterCount ==
  [][ (result_count >= count \/ result_count' >= count)
        => dispatched' = dispatched /\ ~AnyRunning' ]_vars
C5_Witness ==
  /\ state = "Complete" /\ count = 1 /\ result_count = 1
  /\ Cardinality({i \in DOMAIN results : results[i].found}) = 2

\* C6: when a run completes, every match reported found in its final round
\* has its key file in the output directory.
C6_AllPersisted ==
  state = "Complete" =>
    \A i \in DOMAIN results : results[i].found => key_path(results[i].pv) \in DOMAIN files

\* C7: a round in which a task hit a compute-API error (and no build error)
\* does not take the run to Failed, in either dispatch mode.
C7_DispatchErrorTolerated ==
  [][ (/\ state = "Dispatching"
       /\ \E w \in Workers : outcome[w].kind = "dispatch_error"
       /\ \A w \in Workers : outcome[w].kind # "build_error")
        => state' # "Failed" ]_vars

\* C8: a round in which a program build failed ends the run in Failed; the
\* run does not go on to harvest or dispatch, in either dispatch mode.
C8_BuildErrorFatal ==
  [][ (/\ state = "Dispatching"
       /\ \E w \in Workers : outcome[w].kind = "build_error")
        => state' \in {"Dispatching", "Failed"} ]_vars

\* C9: once cancellation has been requested during a run that has a round
\* in flight or harvested, no new round is dispatched.
C9_CancelHonored ==
  [][ (cancel_requested /\ dispatched # <<>>) => dispatched' = dispatched ]_vars

\* C10: the run only takes the transitions Idle -> Validating ->
\* Initializing -> Dispatching <-> Harvesting -> (Complete | Failed), with
\* Failed also entered from Validating, Initializing and Dispatching, and
\* after Complete or Failed nothing is dispatched, advanced or written.
AllowedTransitions ==
  { <<"Idle", "Validating">>, <<"Validating", "Initializing">>,
    <<"Validating", "Failed">>, <<"Initializing", "Dispatching">>,
    <<"Initializing", "Failed">>, <<"Dispatching", "Harvesting">>,
    <<"Dispatching", "Failed">>, <<"Harvesting", "Dispatching">>,
    <<"Harvesting", "Complete">>, <<"Harvesting", "Failed">> }
C10_StateMachine ==
  [][ /\ state' # state => <<state, state'>> \in AllowedTransitions
      /\ state \in {"Complete", "Failed"}
           => UNCHANGED <<state, dispatched, key32, keys, files>> ]_vars

InvalidPattern == B58DecodeRaises(starts_with) \/ B58DecodeRaises(ends_with)
LastCallback == callbacks[Len(callbacks)]
NothingTouched ==
  /\ key32 = <<>> /\ keys = <<>> /\ dispatched = <<>> /\ DOMAIN files = {}
  /\ \A w \in DOMAIN worker : worker[w] = "idle"

\* C11: a run that ended on a fatal error returned {success: false, error}
\* and, when a callback was supplied, its last callback invocation has
\* status "error".
C11_FatalErrorReported ==
  state = "Failed" =>
    /\ result.kind = "failure"
    /\ has_callback => (callbacks # <<>> /\ LastCallback.status = "error")

\* C12: a run whose prefix or suffix has a character outside the base58
\* alphabet leaves Validating for Failed with {success: false, error},
\* with no device enumerated, no dispatch and no file.
C12_InvalidPatternFails ==
  (InvalidPattern /\ state \notin {"Idle", "Validating"}) =>
    /\ state = "Failed" /\ result.kind = "failure"
    /\ ~enumerated /\ NothingTouched

\* C13: a run with both prefix and suffix empty returns {success: false,
\* error} without enumerating devices, creating a HostSetting, dispatching
\* or writing a file.
C13_EmptyPatternFails ==
  (starts_with = <<>> /\ ends_with = <<>> /\ state \notin {"Idle", "Validating"}) =>
    /\ state = "Failed"
    /\ result = [kind |-> "failure",
                 error |-> "Please provide at least a prefix or suffix"]
    /\ ~enumerated /\ NothingTouched
C13_Witness ==
  starts_with = <<>> /\ ends_with = <<>> /\ state = "Failed" /\ has_callback

\* C14: once the device enumeration has returned an empty list the run has
\* returned {success: false, error: "No compatible GPU devices found"},
\* with no HostSetting, no dispatch and no file.
C14_NoDeviceFails ==
  (enumerated /\ gpu_counts = 0) =>
    /\ state = "Failed"
    /\ result = [kind |-> "failure", error |-> "No compatible GPU devices found"]
    /\ NothingTouched
C14_Witness ==
  enumerated /\ gpu_counts = 0 /\ state = "Failed" /\ starts_with = <<"A">>

\* C15: the step in which writing a key file raises does not take the run
\* to Failed, and the match is counted.
C15_IOErrorTolerated ==
  [][ (io_error' /\ ~io_error)
        => (state' # "Failed" /\ result_count' >= result_count + 1) ]_vars

\* C16: a step that leaves the run in Failed keeps every key file already
\* written, and the value returned is {success: false, error} without a
\* results list, also when matches were harvested before.
C16_FailedKeepsFiles ==
  [][ state' = "Failed"
        => /\ \A f \in DOMAIN files : f \in DOMAIN files' /\ files'[f] = files[f]
           /\ \A i \in DOMAIN found_keys' : found_keys'[i].path \in DOMAIN files'
           /\ result'.kind = "failure"
           /\ DOMAIN result' = {"kind", "error"} ]_vars
C16_Witness ==
  state = "Failed" /\ found_keys # <<>> /\ DOMAIN files # {} /\ io_error

\* C18: every callback invocation has a status among "searching",
\* "complete" and "error" and carries a progress value in [0, 1]; a
\* "searching" invocation reports a fraction of the requested count.
C18_CallbackContract ==
  \A i \in DOMAIN callbacks :
    LET cb == callbacks[i] IN
      /\ cb.status \in {"searching", "complete", "error"}
      /\ {"num", "den"} \subseteq DOMAIN cb
      /\ 0 <= cb.num /\ cb.num <= cb.den /\ cb.den > 0
      /\ cb.status = "searching" => cb.den = count

\* the 64 integers of the key file of sample key p: seed bytes, then the bytes of
\* the public key derived from them
ExpectedItems == [p \in PrivKeys |-> pv_bytes(p) \o verify_key(pv_bytes(p))]
ExpectedItemsAreBytes ==
  \A p \in PrivKeys :
    /\ Len(ExpectedItems[p]) = 2 * KeyLen
    /\ \A j \in DOMAIN ExpectedItems[p] : ExpectedItems[p][j] \in 0..(UbyteMod - 1)
ExpectedAddress ==
  [p \in PrivKeys |-> b58encode(SubSeq(ExpectedItems[p], KeyLen + 1, 2 * KeyLen))]
ExpectedPath == [p \in PrivKeys |-> "output_dir/" \o ExpectedAddress[p] \o ".json"]

Min(a, b) == IF a <= b THEN a ELSE b
\* the stub of C19: every task of the round reports found with key 1
StubRound ==
  results # <<>> /\ \A i \in DOMAIN results : results[i] = Found(1)
RoundHarvested ==
  state = "Harvesting" /\ state' # "Harvesting" /\ ~(io_error' /\ ~io_error)

\* C17: in Complete the last callback invocation is "complete" with
\* progress 1.0 and the value returned is {success: true, results, count}
\* with count the requested count, exactly that many results in harvest
\* order, each with the path output_dir/<its address>.json.
C17_CompleteResult ==
  state = "Complete" =>
    /\ result.kind = "success"
    /\ result.count = count
    /\ result.results = found_keys
    /\ Len(result.results) = count
    /\ \A i \in DOMAIN result.results :
         \E p \in PrivKeys : /\ result.results[i].pubkey = ExpectedAddress[p]
                             /\ result.results[i].path = ExpectedPath[p]
    /\ has_callback => (callbacks # <<>> /\ LastCallback = CompleteCb)
C17_Witness ==
  state = "Complete" /\ count = MaxCount /\ has_callback /\ Len(dispatched) = 1

C20_KeyFile ==
  /\ ExpectedItemsAreBytes
  /\ DOMAIN files = {found_keys[i].path : i \in DOMAIN found_keys}
  /\ \A i \in DOMAIN found_keys :
       LET rec == found_keys[i]
           text == files[rec.path]
       IN /\ text.json = "array"
          /\ \E p \in PrivKeys :
               /\ text.items = ExpectedItems[p]
               /\ rec.pubkey = ExpectedAddress[p]
               /\ rec.path = ExpectedPath[p]
C20_Witness ==
  /\ Len(found_keys) = 2 /\ found_keys[1].pubkey # found_keys[2].pubkey
  /\ Cardinality(DOMAIN files) = 2

HarvestStep == state = "Harvesting" /\ state' # "Harvesting"

\* C21: the harvest step in which the satisfied count reaches the requested
\* count takes the run to Complete and leaves key32 as it was (no advance).
C21_NoAdvanceAtComplete ==
  [][ (HarvestStep /\ result_count' = count)
        => (state' = "Complete" /\ key32' = key32) ]_vars

\* C25: a harvest step taken when key32 + 2^iteration_bits does not fit in
\* 256 bits leaves key32 unchanged, dispatches nothing and ends the run in
\* Failed with {success: false, error}.
C25_OverflowFails ==
  [][ (HarvestStep /\ ~PlusPow2(key32, iteration_bits).ok)
        => /\ state' = "Failed"
           /\ key32' = key32 /\ keys' = keys /\ dispatched' = dispatched
           /\ result'.kind = "failure" /\ "error" \in DOMAIN result' ]_vars
C25_Witness ==
  /\ state = "Failed" /\ ~io_error /\ key32 # <<>>
  /\ ~PlusPow2(key32, iteration_bits).ok
  /\ Len(keys) > 1 /\ \A w \in Workers : outcome[w].kind = "output"

\* C26: the satisfied count equals the number of entries of the results
\* list and never exceeds the requested count; a step never decreases it,
\* keeps the entries already there, and adds one entry and one to the
\* count per harvested match.
C26_CountMatchesResults ==
  [][ /\ result_count = Len(found_keys) /\ result_count <= count
      /\ result_count' = Len(found_keys') /\ result_count' <= count
      /\ result_count' >= result_count
      /\ SubSeq(found_keys', 1, Len(found_keys)) = found_keys
      /\ \A i \in (Len(found_keys) + 1)..Len(found_keys') :
           /\ found_keys'[i].path \in DOMAIN files'
           /\ \E j \in DOMAIN results : /\ results[j].found
                                        /\ found_keys'[i].pubkey = pubkey(results[j].pv)
    ]_vars
C26_Witness ==
  /\ result_count = MaxCount /\ Len(found_keys) = MaxCount
  /\ Len(dispatched) >= 2 /\ gpu_counts >= 2 /\ ~select_device

IsTerminal(cb) == cb.status \in {"complete", "error"}
\* C27: the callback invocations of a run are "searching" invocations with
\* non-decreasing progress below 1, one per round dispatched, then at most
\* one terminal invocation ("complete" or "error") as the last one.
C27_CallbackOrder ==
  LET n == Len(callbacks)
      s == IF n > 0 /\ IsTerminal(callbacks[n]) THEN n - 1 ELSE n
  IN /\ has_callback => s = Len(dispatched)
     /\ ~has_callback => n = 0
     /\ \A i \in 1..s :
          /\ callbacks[i].status = "searching"
          /\ callbacks[i].num >= 0 /\ callbacks[i].num < callbacks[i].den
          /\ i > 1 => callbacks[i - 1].num * callbacks[i].den
                        <= callbacks[i].num * callbacks[i - 1].den
     /\ (n > 0 /\ IsTerminal(callbacks[n])) => state \in {"Complete", "Failed"}
     /\ state = "Complete" => (has_callback => (n > 0 /\ callbacks[n].status = "complete"))
C27_Witness ==
  /\ Len(callbacks) >= 3 /\ callbacks[Len(callbacks)].status = "error"
  /\ callbacks[2].num > callbacks[1].num

Issued == {w \in DOMAIN tasks : tasks[w] # NoTask}

RECURSIVE SumSizes(_)
SumSizes(W) ==
  IF W = {} THEN 0
  ELSE LET w == CHOOSE x \in W : TRUE IN tasks[w].size + SumSizes(W \ {w})

\* C24: every dispatch enqueues 2^iteration_bits \div gpu_chunks work-items,
\* a positive multiple of the work-group size 32, and the dispatches of a
\* round enqueue at most 2^iteration_bits work-items together.
C24_WorkSize ==
  /\ \A w \in Issued :
       /\ tasks[w].size = (2 ^ iteration_bits) \div (IF select_device THEN 1 ELSE gpu_counts)
       /\ tasks[w].size > 0
       /\ tasks[w].size % 32 = 0
  /\ SumSizes(Issued) <= 2 ^ iteration_bits

\* C23: a dispatch returns an output with the found flag set only if one
\* of its work-items wrote the flag (the output buffer starts as zeros).
C23_FoundOnlyIfWritten ==
  \A w \in Workers : (worker[w] = "done" /\ outcome[w].found) => wrote[w]

C29_EventsProcessed ==
  [][ (events # <<>> /\ events' = Tail(events) /\ current_screen = "generation") =>
        /\ Head(events) = "generation_complete" => generation_result' = "result"
        /\ Head(events) = "generation_error" =>
             generation_error' = "error" /\ ~generating' ]_vars

\* C30: at most one search thread is alive at any time.
C30_OneThread == Cardinality({t \in 1..MaxThreads : threads[t] = "alive"}) <= 1

====
